---- MODULE Spec2Model ----
(***************************************************************************)
(* Telemetry packet codec, batch anomaly detection and the nightly         *)
(* orchestrator (run_nightly_job) of the hex20space telemetry tool.        *)
(*                                                                         *)
(*   Spec        the nightly orchestrator, its files and its triggers      *)
(*   SpecDetect  run_detection on one batch of raw isolation scores        *)
(*   SpecDecode  decode_bin_to_df over a byte stream                       *)
(*   SpecCodec   packet_to_bytes / bytes_to_packet on one packet           *)
(*   SpecPayload bytes_to_packet on a payload of any length                *)
(*   SpecExplain explain_top_anomaly with and without a model artifact     *)
(*   SpecFault   inject_fault on one packet                                *)
(*   SpecStats   compute_summary_stats on one dataframe                    *)
(*   SpecGenerate generate_packets followed by decode_bin_to_df            *)
(*   SpecScheduler start_scheduler called again and again in one process   *)
(***************************************************************************)
EXTENDS Integers, Sequences, FiniteSets, TLC

VARIABLES
    \* ---- nightly orchestrator (telemetry/nightly_job.py, scheduler.py)
    pc,         \* per caller: the statement of run_nightly_job it is about to execute
    run,        \* per caller: id of its current invocation (stands for datetime.now)
    args,       \* per caller: the argument n_packets of the invocation
    df,         \* per caller: the decoded dataframe (row count, bin writer)
    detected,   \* per caller: df_detected (is_anomaly flags, model used)
    summary,    \* per caller: run_summary / stats
    hist,       \* per caller: core stages completed by the current invocation
    failedAt,   \* per caller: the statement that raised, "none" otherwise
    wrote,      \* per caller: PERSIST outputs written by the current invocation
    collab,     \* per caller: collaborator calls made by the current invocation
    binFile, csvFile, modelFile, logFile, lastFile, reports,   \* the shared paths
    sched,      \* the module-global _scheduler
    triggers,   \* trigger events so far (clock of the model)
    skipped,    \* scheduler triggers dropped by max_instances=1
    \* ---- run_detection (telemetry/anomaly.py)
    raw, threshold, scores, flags, dpc,
    \* ---- decode_bin_to_df (telemetry/decoder.py)
    stream, pos, records, rpc,
    \* ---- packet codec (telemetry/telemetry_schema.py)
    packet, wire, decoded, cpc,
    cerr,       \* the exception a codec call raised, "none" otherwise
    \* ---- explain_top_anomaly (telemetry/inspection.py)
    xpc,        \* the statement of explain_top_anomaly about to execute
    xthreshold, \* its argument threshold
    xrows,      \* rows of the dataset it loaded
    xmodel,     \* the file at model_path: "absent", "earlier" (left by an earlier
                \* training) or "on_the_fly" (trained by this call)
    xflags,     \* is_anomaly of df_detected
    xresult,    \* the dict returned: "message", "top_anomaly", or "none"
    xerr,       \* the exception that left explain_top_anomaly, "none" otherwise
    \* ---- inject_fault (telemetry/telemetry_schema.py)
    fpc,        \* "call" before inject_fault runs, "returned" after
    fscenario,  \* its argument scenario
    fin,        \* the contents of the argument packet when the call was made
    fpacket,    \* the argument packet (the caller's dict) now
    fout,       \* the packet returned
    \* ---- compute_summary_stats (telemetry/anomaly.py)
    spc,        \* "call" before compute_summary_stats runs, "returned" after
    sdf,        \* its argument df: the rows and whether it has an is_anomaly column
    stats,      \* the dict returned
    \* ---- generate_packets (telemetry/generator.py)
    gpc,        \* the statement of generate_packets about to execute
    gn,         \* its argument n_packets
    gnow,       \* now = int(time.time())
    gi,         \* the loop variable i
    gfile,      \* the bytes written to out_path so far
    \* ---- start_scheduler (telemetry/scheduler.py)
    schedulers, \* every BackgroundScheduler constructed so far, in order
    mscheduler, \* the module-global _scheduler: an index into schedulers, 0 for None
    calls,      \* the (hour, minute) arguments of the calls made so far
    returned    \* what the last call returned: an index into schedulers, 0 before any

orchVars == <<pc, run, args, df, detected, summary, hist, failedAt, wrote, collab,
              binFile, csvFile, modelFile, logFile, lastFile, reports,
              sched, triggers, skipped>>
detVars == <<raw, threshold, scores, flags, dpc>>
decVars == <<stream, pos, records, rpc>>
codVars == <<packet, wire, decoded, cpc, cerr>>
insVars == <<xpc, xthreshold, xrows, xmodel, xflags, xresult, xerr>>
fltVars == <<fpc, fscenario, fin, fpacket, fout>>
stVars == <<spc, sdf, stats>>
genVars == <<gpc, gn, gnow, gi, gfile>>
schVars == <<schedulers, mscheduler, calls, returned>>
vars == <<orchVars, detVars, decVars, codVars, insVars, fltVars, stVars, genVars, schVars>>

(***************************************************************************)
(* Bounds of the model.                                                    *)
(***************************************************************************)
MaxTriggers == 2    \* trigger events (scheduler firings and manual calls) explored
MaxBatch == 3       \* largest detection batch explored by SpecDetect
MaxPackets == 2     \* most whole packets in a decoded stream
MaxCalls == 4       \* start_scheduler calls explored by SpecScheduler

Range(s) == {s[i] : i \in 1..Len(s)}

(***************************************************************************)
(* run_detection: batch-relative scoring (telemetry/anomaly.py).           *)
(*                                                                         *)
(* Raw isolation scores are laid on a grid of half the guard epsilon: a    *)
(* raw score k stands for base + k * 0.5e-9, so the guard 1e-9 is EpsUnits *)
(* grid steps.  An anomaly_score is the exact quotient num/den the code    *)
(* computes, kept as a record [num, den]; den keeps the sign the code      *)
(* gives it.  RawVals holds gaps below the guard (1 step) and above it     *)
(* (3 to 8 steps); a gap of exactly 1e-9 is left out, since the double     *)
(* nearest 1e-9 is no difference of two doubles in [-1, -0.25].            *)
(***************************************************************************)
EpsUnits == 2
ThresholdNum == 9
ThresholdDen == 10
RawVals == {0, 3, 7, 8}
DefaultThreshold == [num |-> ThresholdNum, den |-> ThresholdDen]
Thresholds == {DefaultThreshold, [num |-> 1, den |-> 2]}

RawMin(r) == CHOOSE m \in Range(r) : \A x \in Range(r) : m <= x
RawMax(r) == CHOOSE m \in Range(r) : \A x \in Range(r) : x <= m

\* a quotient with its denominator made positive (den = 0 is left as it is)
Norm(q) == IF q.den < 0 THEN [num |-> 0 - q.num, den |-> 0 - q.den] ELSE q
\* float comparisons; x/0.0 is nan or an infinity of numpy, below every threshold here
RatGT(a, b) == /\ a.den # 0 /\ b.den # 0
               /\ Norm(a).num * Norm(b).den > Norm(b).num * Norm(a).den
RatGE(a, b) == /\ a.den # 0 /\ b.den # 0
               /\ Norm(a).num * Norm(b).den >= Norm(b).num * Norm(a).den
RatEq(a, b) == /\ a.den # 0 /\ b.den # 0
               /\ Norm(a).num * Norm(b).den = Norm(b).num * Norm(a).den
Zero == [num |-> 0, den |-> 1]
One == [num |-> 1, den |-> 1]

\* scores = (raw_scores.min() - raw_scores) / (raw_scores.min() - raw_scores.max() + 1e-9)
AnomalyScore(r, i) == [num |-> RawMin(r) - r[i],
                       den |-> RawMin(r) - RawMax(r) + EpsUnits]
AnomalyScores(r) == [i \in 1..Len(r) |-> AnomalyScore(r, i)]
\* df["is_anomaly"] = df["anomaly_score"] > threshold
IsAnomaly(sc, thr) == [i \in 1..Len(sc) |-> RatGT(sc[i], thr)]
\* run_detection as a whole: the is_anomaly column of df_detected
run_detection(r, thr) == IsAnomaly(AnomalyScores(r), thr)

RECURSIVE SeqsUpTo(_, _)
SeqsUpTo(S, n) == IF n = 0 THEN {<<>>}
                  ELSE LET prev == SeqsUpTo(S, n - 1)
                       IN prev \cup {Append(s, x) : s \in {t \in prev : Len(t) = n - 1}, x \in S}
Batches == {r \in SeqsUpTo(RawVals, MaxBatch) : Len(r) >= 1}

InitDetect == /\ raw \in Batches
              /\ threshold \in Thresholds
              /\ scores = <<>>
              /\ flags = <<>>
              /\ dpc = "score"
IdleDetect == /\ raw = <<>>
              /\ threshold = DefaultThreshold
              /\ scores = <<>>
              /\ flags = <<>>
              /\ dpc = "idle"

\* anomaly.py 74-77: raw_scores = model.score_samples(X); scores = ...
DetectScore == /\ dpc = "score"
               /\ scores' = AnomalyScores(raw)
               /\ dpc' = "flag"
               /\ UNCHANGED <<raw, threshold, flags>>
\* anomaly.py 79-83: df["anomaly_score"], df["is_anomaly"], return df
DetectFlag == /\ dpc = "flag"
              /\ flags' = IsAnomaly(scores, threshold)
              /\ dpc' = "done"
              /\ UNCHANGED <<raw, threshold, scores>>


(***************************************************************************)
(* The nightly orchestrator run_nightly_job (telemetry/nightly_job.py),    *)
(* its two invokers and the files it shares with them.                     *)
(***************************************************************************)
\* who calls run_nightly_job: the BackgroundScheduler's job thread (scheduler.py 29-37)
\* and a direct caller (app.py 72-74 button thread, main.py 60-61 CLI process)
Callers == {"scheduler", "manual"}
CoreOrder == <<"GENERATE", "DECODE", "TRAIN", "DETECT", "SUMMARIZE", "PERSIST">>
CoreStatements == {"generate", "decode", "train", "detect", "summarize"}
Outputs == {"csv", "model", "log", "last"}
Collaborators == {"create_nightly_briefing", "create_briefing_actions",
                  "create_pdf_report", "speak"}
Resting == {"idle", "done", "failed"}
Active(c) == pc[c] \notin Resting

NoFile == [kind |-> "absent", by |-> 0, rows |-> 0, anomalies |-> 0]
NoData == [rows |-> 0, by |-> 0]
NoDetected == [is_anomaly |-> <<>>, model |-> 0]
NoSummary == [kind |-> "none", total_packets |-> 0, anomaly_count |-> 0]
NoArgs == [n_packets |-> 0]
NoScheduler == [running |-> FALSE, hour |-> 0, minute |-> 0]
\* the (hour, minute) a caller passes: 02:00 (main.py 112 and the default of the time
\* input, app.py 84-94) and two other times picked in the sidebar
CronTimes == {<<2, 0>>, <<3, 30>>, <<23, 59>>}
\* the n_packets a caller may pass: an empty run, one packet, several packets
PacketCounts == {0, 1, 2}
\* n_packets: int = 500 (nightly_job.py 134), on the model's scale: the largest count
DefaultPackets == CHOOSE n \in PacketCounts : \A m \in PacketCounts : m <= n

\* df.sample(frac=0.6): pandas takes round(0.6 * len(df)) rows
SampleRows(n) == (6 * n + 5) \div 10
\* number of rows flagged is_anomaly: int(df["is_anomaly"].sum())
RECURSIVE CountTrue(_)
CountTrue(f) == IF Len(f) = 0 THEN 0
                ELSE (IF f[1] THEN 1 ELSE 0) + CountTrue(Tail(f))
RawRows(n) == {r \in SeqsUpTo(RawVals, n) : Len(r) = n}

InitOrch == /\ pc = [c \in Callers |-> "idle"]
            /\ run = [c \in Callers |-> 0]
            /\ args = [c \in Callers |-> NoArgs]
            /\ df = [c \in Callers |-> NoData]
            /\ detected = [c \in Callers |-> NoDetected]
            /\ summary = [c \in Callers |-> NoSummary]
            /\ hist = [c \in Callers |-> <<>>]
            /\ failedAt = [c \in Callers |-> "none"]
            /\ wrote = [c \in Callers |-> {}]
            /\ collab = [c \in Callers |-> {}]
            /\ binFile = NoFile
            /\ csvFile = NoFile
            /\ modelFile = NoFile
            /\ logFile = <<>>
            /\ lastFile = NoFile
            /\ reports = {}
            /\ sched = NoScheduler
            /\ triggers = 0
            /\ skipped = 0

files == <<binFile, csvFile, modelFile, logFile, lastFile, reports>>
locals == <<args, df, detected, summary>>
trig == <<sched, triggers, skipped>>

\* run_nightly_job is entered (nightly_job.py 133-149): a fresh invocation of caller c
Enter(c, n) ==
    /\ pc' = [pc EXCEPT ![c] = "generate"]
    /\ run' = [run EXCEPT ![c] = triggers + 1]
    /\ args' = [args EXCEPT ![c] = [n_packets |-> n]]
    /\ df' = [df EXCEPT ![c] = NoData]
    /\ detected' = [detected EXCEPT ![c] = NoDetected]
    /\ summary' = [summary EXCEPT ![c] = NoSummary]
    /\ hist' = [hist EXCEPT ![c] = <<>>]
    /\ failedAt' = [failedAt EXCEPT ![c] = "none"]
    /\ wrote' = [wrote EXCEPT ![c] = {}]
    /\ collab' = [collab EXCEPT ![c] = {}]
    /\ triggers' = triggers + 1

\* start_scheduler (scheduler.py 14-43): a call while _scheduler is running returns it
StartScheduler(h, m) ==
    /\ sched' = IF sched.running THEN sched
                ELSE [running |-> TRUE, hour |-> h, minute |-> m]
    /\ UNCHANGED <<pc, run, hist, failedAt, wrote, collab, locals, files, triggers, skipped>>

\* the cron trigger fires; max_instances=1, coalesce=True (scheduler.py 29-37):
\* the job is submitted unless an instance of it is still running
SchedTrigger ==
    /\ sched.running
    /\ triggers < MaxTriggers
    /\ \/ /\ ~Active("scheduler")
          /\ Enter("scheduler", DefaultPackets)
          /\ UNCHANGED <<files, sched, skipped>>
       \/ /\ Active("scheduler")
          /\ skipped' = skipped + 1
          /\ triggers' = triggers + 1
          /\ UNCHANGED <<pc, run, hist, failedAt, wrote, collab, locals, files, sched>>

\* app.py 72-74 (button) and main.py 60-61 (cmd_nightly) call run_nightly_job directly
ManualTrigger(n) ==
    /\ ~Active("manual")
    /\ triggers < MaxTriggers
    /\ Enter("manual", n)
    /\ UNCHANGED <<files, sched, skipped>>

\* any statement raising: nothing catches it, the invocation ends (no except in 133-239)
\* the frame of run_nightly_job is left (return or raise): its local variables are gone
Leave(c) == /\ args' = [args EXCEPT ![c] = NoArgs]
            /\ df' = [df EXCEPT ![c] = NoData]
            /\ detected' = [detected EXCEPT ![c] = NoDetected]
            /\ summary' = [summary EXCEPT ![c] = NoSummary]
Raise(c, at) == /\ pc' = [pc EXCEPT ![c] = "failed"]
                /\ failedAt' = [failedAt EXCEPT ![c] = at]
                /\ Leave(c)
Goto(c, l) == /\ pc' = [pc EXCEPT ![c] = l]
              /\ UNCHANGED failedAt
Completed(c, stage) == hist' = [hist EXCEPT ![c] = Append(@, stage)]
Wrote(c, out) == wrote' = [wrote EXCEPT ![c] = @ \cup {out}]
Called(c, who) == collab' = [collab EXCEPT ![c] = @ \cup {who}]


File(k, c, n, a) == [kind |-> k, by |-> run[c], rows |-> n, anomalies |-> a]

\* 1. generate_packets (nightly_job.py 152, generator.py 39-53): open(out_path, "wb")
\* and n_packets records written; a raise leaves the old file or a prefix of the new
Generate(c) ==
    /\ pc[c] = "generate"
    /\ \/ /\ binFile' = File("bin", c, args[c].n_packets, 0)
          /\ Goto(c, "decode")
          /\ Completed(c, "GENERATE")
          /\ UNCHANGED locals
       \/ /\ \/ binFile' = binFile
             \/ \E m \in 0..args[c].n_packets : binFile' = File("bin", c, m, 0)
          /\ Raise(c, "generate")
          /\ UNCHANGED hist
    /\ UNCHANGED <<run, wrote, collab, trig,
                   csvFile, modelFile, logFile, lastFile, reports>>

\* FIELD_NAMES (telemetry_schema.py 18-27): the packet's fields in declared order
FIELD_NAMES == <<"timestamp", "battery_v", "panel_i", "temp_c",
                 "gyro_x", "gyro_y", "gyro_z", "mode">>
\* df.to_csv(csv_path, index=False): a header of the frame's columns, one line per row
ToCsv(c, n, columns) ==
    [kind |-> "csv", by |-> run[c], rows |-> n, anomalies |-> 0, columns |-> columns]
\* the columns of df_detected: run_detection adds two to a copy of df (anomaly.py 79-81)
DetectedColumns == FIELD_NAMES \o <<"anomaly_score", "is_anomaly">>

\* 2. decode_bin_to_df(save_csv=True) (nightly_job.py 155, decoder.py 27-44): one row
\* per whole record of the bin file, and df.to_csv(csv_path) before it returns
Decode(c) ==
    /\ pc[c] = "decode"
    /\ \/ /\ df' = [df EXCEPT ![c] = [rows |-> binFile.rows, by |-> binFile.by]]
          /\ csvFile' = ToCsv(c, binFile.rows, FIELD_NAMES)
          /\ Wrote(c, "csv")
          /\ Goto(c, "train")
          /\ Completed(c, "DECODE")
          /\ UNCHANGED <<args, detected, summary>>
       \/ /\ Raise(c, "decode")
          /\ UNCHANGED <<csvFile, wrote, hist>>
    /\ UNCHANGED <<run, collab, trig, binFile, modelFile, logFile, lastFile, reports>>

\* Train with the raise caught and a failure record written to the last-run slot
TrainPersistingFailure(c) ==
    /\ pc[c] = "train"
    /\ Raise(c, "train")
    /\ lastFile' = File("empty", c, 0, 0)
    /\ UNCHANGED <<run, hist, wrote, collab, trig,
                   binFile, csvFile, modelFile, logFile, reports>>
\* Train with the raise swallowed: the invocation goes on to DETECT without a model
TrainContinuingOnError(c) ==
    /\ pc[c] = "train"
    /\ Goto(c, "detect")
    /\ UNCHANGED <<run, hist, wrote, collab, locals, trig, files>>

\* 3. df.sample(frac=0.6, random_state=42); train_anomaly_model (nightly_job.py 158-159,
\* anomaly.py 44-57): fit raises on an empty sample, else joblib.dump(model, model_path)
Train(c) ==
    /\ pc[c] = "train"
    /\ \/ /\ SampleRows(df[c].rows) > 0
          /\ modelFile' = File("model", c, SampleRows(df[c].rows), 0)
          /\ Wrote(c, "model")
          /\ Goto(c, "detect")
          /\ Completed(c, "TRAIN")
          /\ UNCHANGED locals
       \/ /\ Raise(c, "train")
          /\ UNCHANGED <<modelFile, wrote, hist>>
    /\ UNCHANGED <<run, collab, trig, binFile, csvFile, logFile, lastFile, reports>>

\* 4. run_detection(df, model_path, threshold=0.9) (nightly_job.py 162, anomaly.py 68-83):
\* joblib.load of whatever is at model_path, every row of df scored and flagged
Detect(c) ==
    /\ pc[c] = "detect"
    /\ \/ /\ modelFile.kind = "model"
          /\ \E f \in {run_detection(r, DefaultThreshold) : r \in RawRows(df[c].rows)} :
                detected' = [detected EXCEPT ![c] =
                    [is_anomaly |-> f, model |-> modelFile.by]]
          /\ Goto(c, "summarize")
          /\ Completed(c, "DETECT")
          /\ UNCHANGED <<args, df, summary>>
       \/ /\ Raise(c, "detect")
          /\ UNCHANGED hist
    /\ UNCHANGED <<run, wrote, collab, trig, files>>

\* 5. compute_summary_stats(df_detected) (nightly_job.py 165, anomaly.py 86-103)
Summarize(c) ==
    /\ pc[c] = "summarize"
    /\ \/ /\ summary' = [summary EXCEPT ![c] =
                [kind |-> "stats",
                 total_packets |-> Len(detected[c].is_anomaly),
                 anomaly_count |-> CountTrue(detected[c].is_anomaly)]]
          /\ Goto(c, "build")
          /\ Completed(c, "SUMMARIZE")
          /\ UNCHANGED <<args, df, detected>>
       \/ /\ Raise(c, "summarize")
          /\ UNCHANGED hist
    /\ UNCHANGED <<run, wrote, collab, trig, files>>

\* 6. run_summary is built (nightly_job.py 167-185)
Build(c) ==
    /\ pc[c] = "build"
    /\ summary' = [summary EXCEPT ![c] =
            [kind |-> "run_summary",
             total_packets |-> Len(detected[c].is_anomaly),
             anomaly_count |-> summary[c].anomaly_count]]
    /\ Goto(c, "briefing")
    /\ UNCHANGED <<run, args, df, detected, hist, wrote, collab, trig, files>>

\* 7. create_nightly_briefing(run_summary) (nightly_job.py 188-189, ai.py 35-54)
Briefing(c) ==
    /\ pc[c] = "briefing"
    /\ Called(c, "create_nightly_briefing")
    /\ \/ Goto(c, "actions") /\ UNCHANGED locals
       \/ Raise(c, "briefing")
    /\ UNCHANGED <<run, hist, wrote, trig, files>>

\* 8. create_briefing_actions(run_summary, briefing) (nightly_job.py 192-193, ai.py 57-76)
Actions(c) ==
    /\ pc[c] = "actions"
    /\ Called(c, "create_briefing_actions")
    /\ \/ Goto(c, "pdf") /\ UNCHANGED locals
       \/ Raise(c, "actions")
    /\ UNCHANGED <<run, hist, wrote, trig, files>>

\* 9. _create_pdf_report (nightly_job.py 196-200, 60-130)
Pdf(c) ==
    /\ pc[c] = "pdf"
    /\ Called(c, "create_pdf_report")
    /\ \/ /\ reports' = reports \cup {run[c]}
          /\ Goto(c, "log")
          /\ UNCHANGED locals
       \/ /\ Raise(c, "pdf")
          /\ UNCHANGED reports
    /\ UNCHANGED <<run, hist, wrote, trig,
                   binFile, csvFile, modelFile, logFile, lastFile>>

\* 10. one line appended to NIGHTLY_LOG (nightly_job.py 203-208)
Log(c) ==
    /\ pc[c] = "log"
    /\ \/ /\ logFile' = Append(logFile, File("line", c, summary[c].total_packets,
                                              summary[c].anomaly_count))
          /\ Wrote(c, "log")
          /\ Goto(c, "tts")
          /\ UNCHANGED locals
       \/ /\ Raise(c, "log")
          /\ UNCHANGED <<logFile, wrote>>
    /\ UNCHANGED <<run, hist, collab, trig,
                   binFile, csvFile, modelFile, lastFile, reports>>

\* 11. if use_tts: speak(...) three times (nightly_job.py 211-225, tts.py 17-21).
\* use_tts is read here and nowhere else, so the argument is drawn where it is read;
\* the scheduler's job passes no arguments (use_tts=True)
Tts(c, use_tts) ==
    /\ pc[c] = "tts"
    /\ \/ /\ use_tts
          /\ Called(c, "speak")
          /\ \/ Goto(c, "open_last") /\ UNCHANGED locals
             \/ Raise(c, "tts")
       \/ /\ ~use_tts
          /\ Goto(c, "open_last")
          /\ UNCHANGED <<collab, locals>>
    /\ UNCHANGED <<run, hist, wrote, trig, files>>

\* 12. open(LAST_SCHEDULED_FILE, "w") truncates the slot (nightly_job.py 228-229)
OpenLast(c) ==
    /\ pc[c] = "open_last"
    /\ \/ /\ lastFile' = File("empty", c, 0, 0)
          /\ Wrote(c, "last")
          /\ Goto(c, "dump_last")
          /\ UNCHANGED locals
       \/ /\ Raise(c, "open_last")
          /\ UNCHANGED <<lastFile, wrote>>
    /\ UNCHANGED <<run, hist, collab, trig,
                   binFile, csvFile, modelFile, logFile, reports>>

\* the dict json.dump writes (nightly_job.py 230-237): its keys in order; the timestamp
\* is the run's (by), csv_file, bin_file and report_pdf are the run's paths
LastRunKeys == <<"timestamp", "total_packets", "anomaly_count",
                 "csv_file", "bin_file", "report_pdf">>
LastRecord(c) ==
    [kind |-> "record", by |-> run[c], rows |-> summary[c].total_packets,
     anomalies |-> summary[c].anomaly_count, keys |-> LastRunKeys]

\* 13. json.dump(...) and the file closed, return run_summary (nightly_job.py 230-239)
DumpLast(c) ==
    /\ pc[c] = "dump_last"
    /\ \/ /\ lastFile' = LastRecord(c)
          /\ Goto(c, "done")
          /\ Completed(c, "PERSIST")
          /\ Leave(c)
       \/ /\ Raise(c, "dump_last")
          /\ UNCHANGED <<lastFile, hist>>
    /\ UNCHANGED <<run, wrote, collab, trig,
                   binFile, csvFile, modelFile, logFile, reports>>

(***************************************************************************)
(* explain_top_anomaly (telemetry/inspection.py 30-81) and the model file  *)
(* it shares with the training commands.                                   *)
(***************************************************************************)
\* the dataset sizes _load_or_decode may find: an empty CSV up to a full batch
DatasetRows == 0..MaxBatch
\* run_detection(df, model_path, threshold) on n rows (anomaly.py 68-83): the flags
\* for whatever raw scores the model gives the rows
DetectFlags(n, th) == {run_detection(r, th) : r \in RawRows(n)}
AnyTrue(f) == \E i \in 1..Len(f) : f[i]

InitExplain == /\ xpc = "load"
               /\ xthreshold \in Thresholds
               /\ xrows = 0
               /\ xmodel \in {"absent", "earlier"}
               /\ xflags = <<>>
               /\ xresult = "none"
               /\ xerr = "none"
IdleExplain == /\ xpc = "idle" /\ xthreshold = DefaultThreshold /\ xrows = 0 /\ xmodel = "absent" /\ xflags = <<>>
               /\ xresult = "none" /\ xerr = "none"

\* an exception leaves explain_top_anomaly
ExplainRaise(e) == xpc' = "raised" /\ xerr' = e

\* df = _load_or_decode(csv_path) (inspection.py 48, 15-27)
ExplainLoad ==
    /\ xpc = "load"
    /\ \E n \in DatasetRows : xrows' = n
    /\ xpc' = "detect"
    /\ UNCHANGED <<xthreshold, xmodel, xflags, xresult, xerr>>

\* ExplainDetect without the except clause: the missing model's error leaves the call
ExplainDetectUncaught ==
    /\ xpc = "detect"
    /\ IF xmodel = "absent" \/ xrows = 0
         THEN /\ ExplainRaise(IF xmodel = "absent" THEN "FileNotFoundError" ELSE "ValueError")
              /\ UNCHANGED xflags
         ELSE /\ \E f \in DetectFlags(xrows, xthreshold) : xflags' = f
              /\ xpc' = "pick"
              /\ UNCHANGED xerr
    /\ UNCHANGED <<xthreshold, xrows, xmodel, xresult>>
\* try: run_detection (inspection.py 51-52): joblib.load raises FileNotFoundError when
\* no file is at model_path, caught at line 53; score_samples raises ValueError on a
\* dataset of no rows, which is not caught
ExplainDetect ==
    /\ xpc = "detect"
    /\ IF xmodel = "absent"
         THEN xpc' = "train" /\ UNCHANGED <<xflags, xerr>>
         ELSE IF xrows = 0
                THEN ExplainRaise("ValueError") /\ UNCHANGED xflags
                ELSE /\ \E f \in DetectFlags(xrows, xthreshold) : xflags' = f
                     /\ xpc' = "pick"
                     /\ UNCHANGED xerr
    /\ UNCHANGED <<xthreshold, xrows, xmodel, xresult>>

\* except FileNotFoundError: train_anomaly_model(df, model_path) (inspection.py 53-57,
\* anomaly.py 43-55): fit raises ValueError on no rows, else the model is dumped
ExplainTrain ==
    /\ xpc = "train"
    /\ IF xrows = 0
         THEN ExplainRaise("ValueError") /\ UNCHANGED xmodel
         ELSE xmodel' = "on_the_fly" /\ xpc' = "redetect" /\ UNCHANGED xerr
    /\ UNCHANGED <<xthreshold, xrows, xflags, xresult>>

\* df_detected = run_detection(...) again, inside the except block (inspection.py 58)
ExplainRedetect ==
    /\ xpc = "redetect"
    /\ \E f \in DetectFlags(xrows, xthreshold) : xflags' = f
    /\ xpc' = "pick"
    /\ UNCHANGED <<xthreshold, xrows, xmodel, xresult, xerr>>

\* no flagged row: the message is returned (inspection.py 60-63); else the top row is
\* picked and the stats computed (65-72)
ExplainPick ==
    /\ xpc = "pick"
    /\ IF AnyTrue(xflags)
         THEN xpc' = "explain" /\ UNCHANGED xresult
         ELSE xpc' = "returned" /\ xresult' = "message"
    /\ UNCHANGED <<xthreshold, xrows, xmodel, xflags, xerr>>

\* ai_explain_anomaly(packet, stats, anomaly_score) (inspection.py 74, ai.py 79-98): the
\* collaborator answers or raises (RuntimeError without OPENAI_API_KEY); return (76-81)
ExplainAsk ==
    /\ xpc = "explain"
    /\ \/ xpc' = "returned" /\ xresult' = "top_anomaly" /\ UNCHANGED xerr
       \/ ExplainRaise("RuntimeError") /\ UNCHANGED xresult
    /\ UNCHANGED <<xthreshold, xrows, xmodel, xflags>>

(***************************************************************************)
(* Packet codec (telemetry/telemetry_schema.py).                           *)
(*                                                                         *)
(* A byte is 0..255.  The uint32 timestamp is kept as two 16-bit limbs     *)
(* [hi, lo] (its value is hi * 65536 + lo), a Python float (a double) as   *)
(* [sign, exp, man, tail]: exp is the exponent on float32's bias, man the  *)
(* leading 23 bits of the 52-bit fraction and tail the 29 bits below them  *)
(* that the f format rounds away.  A packet dict is the sequence of its    *)
(* <<key, value>> pairs in insertion order.                                *)
(***************************************************************************)
\* ">I f f f f f f B": the width in bytes of each field
FormatWidths == <<4, 4, 4, 4, 4, 4, 4, 1>>
RECURSIVE SumSeq(_)
SumSeq(q) == IF q = <<>> THEN 0 ELSE q[1] + SumSeq(Tail(q))
\* PACKET_STRUCT.size
PacketSize == SumSeq(FormatWidths)

Half == 268435456         \* 2^28: half a float32 ulp in units of tail
ManTop == 8388608         \* 2^23

\* packet[key]
Get(p, key) == (CHOOSE i \in 1..Len(p) : p[i][1] = key)
Field(p, key) == p[Get(p, key)][2]

\* "I", big-endian: the four bytes of an unsigned 32-bit integer
PackU32(t) == <<t.hi \div 256, t.hi % 256, t.lo \div 256, t.lo % 256>>
\* the timestamp read in little-endian byte order
UnpackU32LittleEndian(b) == [hi |-> b[4] * 256 + b[3], lo |-> b[2] * 256 + b[1]]
UnpackU32(b) == [hi |-> b[1] * 256 + b[2], lo |-> b[3] * 256 + b[4]]

\* (float)x of PyFloat_Pack4: round to nearest float32, ties to even
RoundUp(x) == \/ x.tail > Half
              \/ x.tail = Half /\ x.man % 2 = 1
ToFloat32(x) ==
    IF ~RoundUp(x) THEN [sign |-> x.sign, exp |-> x.exp, man |-> x.man, tail |-> 0]
    ELSE IF x.man + 1 < ManTop
         THEN [sign |-> x.sign, exp |-> x.exp, man |-> x.man + 1, tail |-> 0]
         ELSE [sign |-> x.sign, exp |-> x.exp + 1, man |-> 0, tail |-> 0]
\* "f", big-endian: sign bit, 8 exponent bits, 23 fraction bits
PackF32(x) ==
    LET y == ToFloat32(x)
    IN <<y.sign * 128 + y.exp \div 2,
         (y.exp % 2) * 128 + y.man \div 65536,
         (y.man \div 256) % 256,
         y.man % 256>>
UnpackF32(b) == [sign |-> b[1] \div 128,
                 exp |-> (b[1] % 128) * 2 + b[2] \div 128,
                 man |-> (b[2] % 128) * 65536 + b[3] * 256 + b[4],
                 tail |-> 0]
\* struct raises OverflowError when a finite double rounds to a float32 infinity
Overflows(x) == ToFloat32(x).exp >= 255

FloatKeys == <<"battery_v", "panel_i", "temp_c", "gyro_x", "gyro_y", "gyro_z">>

\* packet_to_bytes: PACKET_STRUCT.pack(int(timestamp), float(...) x 6, int(mode))
packet_to_bytes(p) ==
    IF \E i \in 1..Len(FloatKeys) : Overflows(Field(p, FloatKeys[i]))
    THEN <<"OverflowError">>
    ELSE PackU32(Field(p, "timestamp"))
         \o PackF32(Field(p, "battery_v")) \o PackF32(Field(p, "panel_i"))
         \o PackF32(Field(p, "temp_c")) \o PackF32(Field(p, "gyro_x"))
         \o PackF32(Field(p, "gyro_y")) \o PackF32(Field(p, "gyro_z"))
         \o <<Field(p, "mode")>>

\* PACKET_STRUCT.unpack(payload): the eight values in format order
Unpack(b) == <<UnpackU32(SubSeq(b, 1, 4)),
               UnpackF32(SubSeq(b, 5, 8)), UnpackF32(SubSeq(b, 9, 12)),
               UnpackF32(SubSeq(b, 13, 16)), UnpackF32(SubSeq(b, 17, 20)),
               UnpackF32(SubSeq(b, 21, 24)), UnpackF32(SubSeq(b, 25, 28)),
               b[29]>>
\* bytes_to_packet: dict(zip(FIELD_NAMES, unpacked)); unpack raises struct.error
\* unless the payload is exactly PACKET_STRUCT.size bytes long
\* bytes_to_packet zero-filling a short payload up to the struct size instead of raising
BytesToPacketZeroFilled(b) ==
    IF Len(b) > PacketSize THEN <<"struct.error">>
    ELSE [i \in 1..Len(FIELD_NAMES) |->
            <<FIELD_NAMES[i],
              Unpack([k \in 1..PacketSize |-> IF k <= Len(b) THEN b[k] ELSE 0])[i]>>]
bytes_to_packet(b) ==
    IF Len(b) # PacketSize THEN <<"struct.error">>
    ELSE [i \in 1..Len(FIELD_NAMES) |-> <<FIELD_NAMES[i], Unpack(b)[i]>>]

\* a packet dict with its keys in the order generate_normal_packet inserts them
MakePacket(ts, bv, pi, tc, gx, gy, gz, mode) ==
    <<<<"timestamp", ts>>, <<"battery_v", bv>>, <<"panel_i", pi>>, <<"temp_c", tc>>,
      <<"gyro_x", gx>>, <<"gyro_y", gy>>, <<"gyro_z", gz>>, <<"mode", mode>>>>
F(s, e, m, t) == [sign |-> s, exp |-> e, man |-> m, tail |-> t]
T(h, l) == [hi |-> h, lo |-> l]

\* sample field values: doubles as the generator draws them (7.4 V, 1.2 A, 35 C, small
\* gyro rates, faulted values), exact float32 values, ties and a carry into the exponent
Timestamps == {T(0, 0), T(25939, 61696), T(32768, 0), T(65535, 65535)}
BatteryVals == {F(0, 129, 7130316, 429496730), F(0, 129, 3984588, 429496730),
                F(0, 129, 5, Half)}
PanelVals == {F(0, 0, 0, 0), F(0, 127, 1677721, 322122547)}
TempVals == {F(0, 132, 786432, 0), F(0, 132, 7680819, 107374182),
             F(0, 129, ManTop - 1, Half + 1)}
GyroXVals == {F(0, 121, 2348810, 128849019), F(1, 120, 5570035, 382252089)}
GyroYVals == {F(1, 125, 6278034, 121977071), F(1, 120, ManTop - 1, Half)}
GyroZVals == {F(0, 0, 0, 0), F(0, 132, 100, Half - 1)}
ModeVals == {0, 1, 2, 3, 255}
CodecPackets == {MakePacket(ts, bv, pi, tc, gx, gy, gz, m) :
                    ts \in Timestamps, bv \in BatteryVals, pi \in PanelVals,
                    tc \in TempVals, gx \in GyroXVals, gy \in GyroYVals,
                    gz \in GyroZVals, m \in ModeVals}

InitCodec == /\ packet \in CodecPackets
             /\ wire = <<>>
             /\ decoded = <<>>
             /\ cpc = "encode"
             /\ cerr = "none"
IdleCodec == /\ packet = <<>> /\ wire = <<>> /\ decoded = <<>> /\ cpc = "idle"
             /\ cerr = "none"

\* telemetry_schema.py 82-93
Encode == /\ cpc = "encode"
          /\ wire' = packet_to_bytes(packet)
          /\ cpc' = "decode"
          /\ UNCHANGED <<packet, decoded, cerr>>
\* telemetry_schema.py 96-99
\* PACKET_STRUCT.unpack raises struct.error unless the payload has exactly 29 bytes;
\* bytes_to_packet has no try/except, so the error leaves it and nothing is returned
DecodeOne == /\ cpc = "decode"
             /\ IF bytes_to_packet(wire) = <<"struct.error">>
                   THEN /\ cerr' = "struct.error"
                        /\ cpc' = "raised"
                        /\ UNCHANGED decoded
                   ELSE /\ decoded' = bytes_to_packet(wire)
                        /\ cpc' = "done"
                        /\ UNCHANGED cerr
             /\ UNCHANGED <<packet, wire>>

(***************************************************************************)
(* inject_fault (telemetry/telemetry_schema.py 62-79).                     *)
(*                                                                         *)
(* The float fields of a packet are counted here in eighths of their unit  *)
(* (battery_v 59 is 7.375 V), small enough for double arithmetic to be     *)
(* exact on them, so + and - below are the code's += and -=.               *)
(***************************************************************************)
\* p[key] = v on a dict: the key keeps its place
SetField(p, key, v) == [i \in 1..Len(p) |-> IF p[i][1] = key THEN <<key, v>> ELSE p[i]]
Scenarios == {"power_drop", "thermal_spike", "attitude_issue", "unknown"}
\* random.uniform(a, b): the two ends of the interval
Uniform(a, b) == {a, b}
\* the random.uniform draws of each branch, in the order the code makes them
Draws(scenario) ==
    CASE scenario = "power_drop" -> Uniform(8, 20) \X Uniform(4, 8)
      [] scenario = "thermal_spike" -> Uniform(120, 240) \X {0}
      [] scenario = "attitude_issue" -> Uniform(-4, 4) \X Uniform(-4, 4) \X Uniform(-4, 4)
      [] OTHER -> {<<0, 0>>}

\* power_drop with the voltage change applied with the wrong sign
InjectFaultRaisingBattery(pkt, scenario, u) ==
    IF scenario = "power_drop"
      THEN SetField(SetField(SetField(pkt,
               "battery_v", Field(pkt, "battery_v") + u[1]),
               "panel_i", Field(pkt, "panel_i") + u[2]),
               "mode", 2)
      ELSE pkt
\* inject_fault(packet, scenario) with its random draws u; p = packet.copy() is a new
\* dict, so the value below is the returned p and the argument itself is not written
inject_fault(pkt, scenario, u) ==
    CASE scenario = "power_drop" ->
             SetField(SetField(SetField(pkt,
                 "battery_v", Field(pkt, "battery_v") - u[1]),
                 "panel_i", Field(pkt, "panel_i") + u[2]),
                 "mode", 2)
      [] scenario = "thermal_spike" ->
             SetField(pkt, "temp_c", Field(pkt, "temp_c") + u[1])
      [] scenario = "attitude_issue" ->
             SetField(SetField(SetField(SetField(pkt,
                 "gyro_x", Field(pkt, "gyro_x") + u[1]),
                 "gyro_y", Field(pkt, "gyro_y") + u[2]),
                 "gyro_z", Field(pkt, "gyro_z") + u[3]),
                 "mode", 3)
      [] OTHER -> pkt

\* packets as generate_normal_packet returns them (7.4 V, 1.2 A, 35 C around the means),
\* a flat battery and an idle panel
FaultPackets == {MakePacket(T(25939, 61696), bv, pi, 280, 0, -1, 1, m) :
                    bv \in {0, 59, 62}, pi \in {0, 10}, m \in 0..3}
InitFault == /\ fpc = "call"
             /\ fscenario \in Scenarios
             /\ fin \in FaultPackets
             /\ fpacket = fin
             /\ fout = <<>>
InjectFault ==
    /\ fpc = "call"
    /\ \E u \in Draws(fscenario) : fout' = inject_fault(fpacket, fscenario, u)
    /\ fpc' = "returned"
    /\ UNCHANGED <<fscenario, fin, fpacket>>

(***************************************************************************)
(* compute_summary_stats (telemetry/anomaly.py 86-103).                    *)
(*                                                                         *)
(* A dataframe is its rows (records keyed by column) and its columns.      *)
(* series.mean() is kept as the exact quotient [num, den] and series.std() *)
(* (pandas: ddof = 1) as its square [sq_num, sq_den]; a zero denominator   *)
(* is the NaN pandas returns, as is "nan" for min()/max() of no rows.      *)
(***************************************************************************)
FEATURE_COLUMNS == <<"battery_v", "panel_i", "temp_c", "gyro_x", "gyro_y", "gyro_z", "mode">>
RECURSIVE SeqSum(_)
SeqSum(q) == IF q = <<>> THEN 0 ELSE q[1] + SeqSum(Tail(q))
\* normal_df[col]
Column(rows, col) == [i \in 1..Len(rows) |-> rows[i][col]]
Squares(q) == [i \in 1..Len(q) |-> q[i] * q[i]]
SeriesMean(q) == [num |-> SeqSum(q), den |-> Len(q)]
SeriesStd(q) == [sq_num |-> Len(q) * SeqSum(Squares(q)) - SeqSum(q) * SeqSum(q),
                 sq_den |-> Len(q) * (Len(q) - 1)]
SeriesMin(q) == IF q = <<>> THEN "nan"
                ELSE CHOOSE v \in Range(q) : \A w \in Range(q) : v <= w
SeriesMax(q) == IF q = <<>> THEN "nan"
                ELSE CHOOSE v \in Range(q) : \A w \in Range(q) : v >= w
HasFlag(d) == "is_anomaly" \in Range(d.columns)
NotAnomalous(r) == ~r["is_anomaly"]
Anomalous(r) == r["is_anomaly"]
\* the baseline taken over every row, flagged or not
NormalRowsIgnoringFlag(d) == d.rows
\* normal_df = df[~df["is_anomaly"]] if "is_anomaly" in df.columns else df  (line 90)
NormalRows(d) == IF HasFlag(d) THEN SelectSeq(d.rows, NotAnomalous) ELSE d.rows
compute_summary_stats(d) ==
    [features |-> [col \in Range(FEATURE_COLUMNS) |->
                      LET series == Column(NormalRows(d), col)
                      IN [mean |-> SeriesMean(series), std |-> SeriesStd(series),
                          min |-> SeriesMin(series), max |-> SeriesMax(series)]],
     total_packets |-> Len(d.rows),
     anomaly_count |-> IF HasFlag(d) THEN Len(SelectSeq(d.rows, Anomalous)) ELSE 0]

\* rows of a decoded dataset (values in eighths of a unit), with and without the
\* is_anomaly column run_detection adds
PlainRow(bv, m) == [battery_v |-> bv, panel_i |-> 10, temp_c |-> 280,
                    gyro_x |-> 0, gyro_y |-> -1, gyro_z |-> 1, mode |-> m]
PlainRows == {PlainRow(bv, m) : bv \in {40, 59}, m \in {1, 2}}
FlaggedRows == {[c \in DOMAIN r \cup {"is_anomaly"} |->
                    IF c = "is_anomaly" THEN a ELSE r[c]] : r \in PlainRows, a \in BOOLEAN}
StatsInputs == {[rows |-> q, columns |-> FIELD_NAMES] : q \in SeqsUpTo(PlainRows, MaxBatch)}
               \cup {[rows |-> q, columns |-> DetectedColumns] :
                        q \in SeqsUpTo(FlaggedRows, MaxBatch)}
InitStats == /\ spc = "call"
             /\ sdf \in StatsInputs
             /\ stats = <<>>
ComputeStats == /\ spc = "call"
                /\ stats' = compute_summary_stats(sdf)
                /\ spc' = "returned"
                /\ UNCHANGED sdf

(***************************************************************************)
(* decode_bin_to_df (telemetry/decoder.py): the read loop over a file.     *)
(***************************************************************************)
StreamPackets ==
    {MakePacket(T(25939, 61696), F(0, 129, 7130316, 429496730), F(0, 127, 1677721, 322122547),
                F(0, 132, 786432, 0), F(0, 121, 2348810, 128849019),
                F(1, 125, 6278034, 121977071), F(0, 0, 0, 0), 1),
     MakePacket(T(25939, 61697), F(0, 129, 3984588, 429496730), F(0, 127, 1677721, 322122547),
                F(0, 132, 786432, 0), F(1, 120, 5570035, 382252089),
                F(1, 125, 6278034, 121977071), F(0, 132, 100, Half - 1), 2),
     MakePacket(T(65535, 65535), F(0, 129, 5, Half), F(0, 0, 0, 0),
                F(0, 132, 7680819, 107374182), F(0, 121, 2348810, 128849019),
                F(1, 120, ManTop - 1, Half), F(0, 0, 0, 0), 3)}
\* the bytes of a partial record at the end of a file: any bytes will do
TrailingByte(i) == (i * 37 + 11) % 256
Trailing(n) == [i \in 1..n |-> TrailingByte(i)]
RECURSIVE Flatten(_)
Flatten(ps) == IF ps = <<>> THEN <<>> ELSE packet_to_bytes(ps[1]) \o Flatten(Tail(ps))
Streams == {Flatten(ps) \o Trailing(n) :
               ps \in SeqsUpTo(StreamPackets, MaxPackets), n \in 0..(PacketSize - 1)}

\* bytes_to_packet called on a payload a caller hands it: a prefix of an encoded packet,
\* a whole one, or one with a byte too many
PayloadLens == 0..(PacketSize + 1)
Payloads == {[i \in 1..n |-> IF i <= PacketSize THEN packet_to_bytes(p)[i] ELSE TrailingByte(i)] :
                p \in StreamPackets, n \in PayloadLens}
InitPayload == /\ packet = <<>>
               /\ wire \in Payloads
               /\ decoded = <<>>
               /\ cpc = "decode"
               /\ cerr = "none"

InitDecode == /\ stream \in Streams
              /\ pos = 0
              /\ records = <<>>
              /\ rpc = "read"
IdleDecode == /\ stream = <<>> /\ pos = 0 /\ records = <<>> /\ rpc = "idle"

\* chunk = f.read(size): at most size bytes from the file position on
ReadChunk(f, at, size) ==
    SubSeq(f, at + 1, IF at + size <= Len(f) THEN at + size ELSE Len(f))
\* the loop's test without its length check
ShortReadEmptyOnly(chunk) == chunk = <<>>
\* if not chunk or len(chunk) < size: break
ShortRead(chunk) == chunk = <<>> \/ Len(chunk) < PacketSize
\* decoder.py 30-36: one turn of the while loop
DecodeRead ==
    /\ rpc = "read"
    /\ LET chunk == ReadChunk(stream, pos, PacketSize)
       IN /\ pos' = pos + Len(chunk)
          /\ IF ShortRead(chunk)
             THEN /\ rpc' = "frame"
                  /\ UNCHANGED records
             ELSE IF bytes_to_packet(chunk) = <<"struct.error">>
                  THEN /\ rpc' = "error"
                       /\ UNCHANGED records
                  ELSE /\ records' = Append(records, bytes_to_packet(chunk))
                       /\ UNCHANGED rpc
    /\ UNCHANGED stream
\* decoder.py 38-44: the dataframe is built from the records and returned
DecodeReturn ==
    /\ rpc = "frame"
    /\ rpc' = "done"
    /\ UNCHANGED <<stream, pos, records>>

(***************************************************************************)
(* generate_packets (telemetry/generator.py 18-53), followed by a decode   *)
(* of the file it wrote.                                                   *)
(***************************************************************************)
RECURSIVE Log2(_)
Log2(a) == IF a < 2 THEN 0 ELSE 1 + Log2(a \div 2)
RECURSIVE TwoTo(_)
TwoTo(e) == IF e = 0 THEN 1 ELSE 2 * TwoTo(e - 1)
Abs(k) == IF k < 0 THEN -k ELSE k
\* the double whose value is k eighths: exact, nothing below the 23 leading fraction bits
ToDouble(k) ==
    IF k = 0 THEN F(0, 0, 0, 0)
    ELSE LET e == Log2(Abs(k))
         IN F(IF k < 0 THEN 1 ELSE 0, 127 + e - 3,
              (Abs(k) - TwoTo(e)) * TwoTo(23 - e), 0)
\* the packet with its float fields as doubles, as packet_to_bytes receives it
AsDoubles(p) == [i \in 1..Len(p) |->
                    IF p[i][1] \in Range(FloatKeys) THEN <<p[i][1], ToDouble(p[i][2])>>
                    ELSE p[i]]
\* now + i on the two limbs of the timestamp
TsAdd(t, i) == [hi |-> t.hi + (t.lo + i) \div 65536, lo |-> (t.lo + i) % 65536]
\* every packet stamped with the starting time
PacketTimeFrozen(now, i) == now
\* ts = now + i  (generator.py 43)
PacketTime(now, i) == TsAdd(now, i)
\* generate_normal_packet(ts) (telemetry_schema.py 37-59): the draws around the means
NormalPackets(ts) == {MakePacket(ts, 59, pi, 280, 0, -1, 1, 1) : pi \in {0, 10}}
\* fault_scenarios default (generator.py 36-37)
FaultScenarios == {"power_drop", "thermal_spike", "attitude_issue"}
\* the packet of one loop turn: normal, or faulted when random.random() < fault_rate
TurnPackets(ts) ==
    NormalPackets(ts)
    \cup UNION {{inject_fault(p, sc, u) : u \in Draws(sc)} :
                   p \in NormalPackets(ts), sc \in FaultScenarios}
\* int(time.time()): a time in 2023, and one whose low 16 bits are about to carry
Nows == {T(25939, 61696), T(25939, 65535)}

InitGenerate == /\ gpc = "open"
                /\ gn \in 0..MaxPackets
                /\ gnow \in Nows
                /\ gi = 0
                /\ gfile \in {<<>>, Trailing(3)}
\* with open(out_path, "wb") as f: the old contents are gone (generator.py 41)
GenOpen == /\ gpc = "open"
           /\ gfile' = <<>>
           /\ gpc' = "loop"
           /\ UNCHANGED <<gn, gnow, gi, decVars>>
\* one turn of for i in range(n_packets) (generator.py 42-51)
GenTurn == /\ gpc = "loop"
           /\ gi < gn
           /\ \E p \in TurnPackets(PacketTime(gnow, gi)) :
                 gfile' = gfile \o packet_to_bytes(AsDoubles(p))
           /\ gi' = gi + 1
           /\ UNCHANGED <<gpc, gn, gnow, decVars>>
\* the loop ends, the file is closed and out_path returned (generator.py 42, 53)
GenReturn == /\ gpc = "loop"
             /\ gi >= gn
             /\ gpc' = "written"
             /\ UNCHANGED <<gn, gnow, gi, gfile, decVars>>
\* decode_bin_to_df(out_path) is called on the file written (decoder.py 27-30)
GenDecode == /\ gpc = "written"
             /\ gpc' = "decoding"
             /\ stream' = gfile
             /\ pos' = 0
             /\ records' = <<>>
             /\ rpc' = "read"
             /\ UNCHANGED <<gn, gnow, gi, gfile>>

(***************************************************************************)
(* start_scheduler (telemetry/scheduler.py).                               *)
(*                                                                         *)
(* Its callers are the sidebar button (app.py 93-94) and cmd_schedule      *)
(* (main.py 111-112); each makes its calls one after the other, so a call  *)
(* is one step.  Nothing in the repository shuts a scheduler down.         *)
(***************************************************************************)
\* BackgroundScheduler(timezone=IST): a new scheduler, not started, without jobs
BackgroundScheduler == [timezone |-> "IST", running |-> FALSE, jobs |-> <<>>]
\* the job of scheduler.py 25-32
NightlyJob(h, m) == [id |-> "nightly_job", func |-> "run_nightly_job",
                     hour |-> h, minute |-> m, max_instances |-> 1, coalesce |-> TRUE]
\* add_job(..., replace_existing=True): a job of the same id is replaced, else added
add_job(jobs, job) ==
    IF \E i \in 1..Len(jobs) : jobs[i].id = job.id
    THEN [i \in 1..Len(jobs) |-> IF jobs[i].id = job.id THEN job ELSE jobs[i]]
    ELSE Append(jobs, job)
\* _scheduler is not None and _scheduler.running (scheduler.py 20)
Running(s) == s # 0 /\ schedulers[s].running

InitScheduler == /\ schedulers = <<>>
                 /\ mscheduler = 0
                 /\ calls = <<>>
                 /\ returned = 0
IdleScheduler == InitScheduler

\* start_scheduler without the check of scheduler.py 20-21
StartSchedulerUnguarded(h, m) ==
    /\ Len(calls) < MaxCalls
    /\ calls' = Append(calls, <<h, m>>)
    /\ LET scheduler == [BackgroundScheduler EXCEPT !.jobs = add_job(@, NightlyJob(h, m))]
           started == [scheduler EXCEPT !.running = TRUE]
       IN /\ schedulers' = Append(schedulers, started)
          /\ mscheduler' = Len(schedulers) + 1
          /\ returned' = Len(schedulers) + 1
\* start_scheduler(hour, minute), scheduler.py 17-43: a running _scheduler is returned
\* as it is (20-21); otherwise a scheduler is constructed (23), given the job (25-32),
\* started (34), stored in _scheduler (35) and returned (43)
start_scheduler(h, m) ==
    /\ Len(calls) < MaxCalls
    /\ calls' = Append(calls, <<h, m>>)
    /\ IF Running(mscheduler)
       THEN /\ returned' = mscheduler
            /\ UNCHANGED <<schedulers, mscheduler>>
       ELSE LET scheduler == [BackgroundScheduler EXCEPT
                                 !.jobs = add_job(@, NightlyJob(h, m))]
                started == [scheduler EXCEPT !.running = TRUE]
            IN /\ schedulers' = Append(schedulers, started)
               /\ mscheduler' = Len(schedulers) + 1
               /\ returned' = Len(schedulers) + 1

IdleFault == /\ fpc = "idle" /\ fscenario = "none" /\ fin = <<>> /\ fpacket = <<>>
             /\ fout = <<>>
IdleStats == spc = "idle" /\ sdf = [rows |-> <<>>, columns |-> <<>>] /\ stats = <<>>
IdleGenerate == gpc = "idle" /\ gn = 0 /\ gnow = [hi |-> 0, lo |-> 0] /\ gi = 0 /\ gfile = <<>>
IdleLib == IdleFault /\ IdleStats /\ IdleGenerate /\ IdleScheduler

Init == InitOrch /\ IdleDetect /\ IdleDecode /\ IdleCodec /\ IdleExplain /\ IdleLib
others == <<detVars, decVars, codVars, insVars, fltVars, stVars, genVars, schVars>>
DoStartScheduler == /\ StartScheduler(2, 0)
                    /\ UNCHANGED others
DoSchedTrigger == SchedTrigger /\ UNCHANGED others
DoManualTrigger == /\ \E n \in PacketCounts : ManualTrigger(n)
                   /\ UNCHANGED others
DoGenerate == (\E c \in Callers : Generate(c)) /\ UNCHANGED others
DoDecode == (\E c \in Callers : Decode(c)) /\ UNCHANGED others
DoTrain == (\E c \in Callers : Train(c)) /\ UNCHANGED others
DoDetect == (\E c \in Callers : Detect(c)) /\ UNCHANGED others
DoSummarize == (\E c \in Callers : Summarize(c)) /\ UNCHANGED others
DoBuild == (\E c \in Callers : Build(c)) /\ UNCHANGED others
DoBriefing == (\E c \in Callers : Briefing(c)) /\ UNCHANGED others
DoActions == (\E c \in Callers : Actions(c)) /\ UNCHANGED others
DoPdf == (\E c \in Callers : Pdf(c)) /\ UNCHANGED others
DoLog == (\E c \in Callers : Log(c)) /\ UNCHANGED others
DoTts == /\ \/ Tts("scheduler", TRUE)
            \/ \E use_tts \in BOOLEAN : Tts("manual", use_tts)
         /\ UNCHANGED others
DoOpenLast == (\E c \in Callers : OpenLast(c)) /\ UNCHANGED others
DoDumpLast == (\E c \in Callers : DumpLast(c)) /\ UNCHANGED others
Next == \/ DoStartScheduler \/ DoSchedTrigger \/ DoManualTrigger
        \/ DoGenerate \/ DoDecode \/ DoTrain \/ DoDetect \/ DoSummarize \/ DoBuild
        \/ DoBriefing \/ DoActions \/ DoPdf \/ DoLog \/ DoTts
        \/ DoOpenLast \/ DoDumpLast
Spec == Init /\ [][Next]_vars

InitD == InitOrch /\ InitDetect /\ IdleDecode /\ IdleCodec /\ IdleExplain /\ IdleLib
DoDetectScore == DetectScore /\ UNCHANGED <<orchVars, decVars, codVars, insVars, fltVars, stVars, genVars, schVars>>
DoDetectFlag == DetectFlag /\ UNCHANGED <<orchVars, decVars, codVars, insVars, fltVars, stVars, genVars, schVars>>
NextDetect == DoDetectScore \/ DoDetectFlag
SpecDetect == InitD /\ [][NextDetect]_vars

InitR == InitOrch /\ IdleDetect /\ InitDecode /\ IdleCodec /\ IdleExplain /\ IdleLib
DoDecodeRead == DecodeRead /\ UNCHANGED <<orchVars, detVars, codVars, insVars, fltVars, stVars, genVars, schVars>>
DoDecodeReturn == DecodeReturn /\ UNCHANGED <<orchVars, detVars, codVars, insVars, fltVars, stVars, genVars, schVars>>
NextDecode == DoDecodeRead \/ DoDecodeReturn
SpecDecode == InitR /\ [][NextDecode]_vars

InitC == InitOrch /\ IdleDetect /\ IdleDecode /\ InitCodec /\ IdleExplain /\ IdleLib
DoEncode == Encode /\ UNCHANGED <<orchVars, detVars, decVars, insVars, fltVars, stVars, genVars, schVars>>
DoDecodeOne == DecodeOne /\ UNCHANGED <<orchVars, detVars, decVars, insVars, fltVars, stVars, genVars, schVars>>
NextCodec == DoEncode \/ DoDecodeOne
SpecCodec == InitC /\ [][NextCodec]_vars

InitP == InitOrch /\ IdleDetect /\ IdleDecode /\ InitPayload /\ IdleExplain /\ IdleLib
DoDecodePayload == DecodeOne /\ UNCHANGED <<orchVars, detVars, decVars, insVars, fltVars, stVars, genVars, schVars>>
NextPayload == DoDecodePayload
SpecPayload == InitP /\ [][NextPayload]_vars

restExplain == <<orchVars, detVars, decVars, codVars, fltVars, stVars, genVars, schVars>>
InitX == InitOrch /\ IdleDetect /\ IdleDecode /\ IdleCodec /\ InitExplain /\ IdleLib
DoExplainLoad == ExplainLoad /\ UNCHANGED restExplain
DoExplainDetect == ExplainDetect /\ UNCHANGED restExplain
DoExplainTrain == ExplainTrain /\ UNCHANGED restExplain
DoExplainRedetect == ExplainRedetect /\ UNCHANGED restExplain
DoExplainPick == ExplainPick /\ UNCHANGED restExplain
DoExplainAsk == ExplainAsk /\ UNCHANGED restExplain
NextExplain == \/ DoExplainLoad \/ DoExplainDetect \/ DoExplainTrain
               \/ DoExplainRedetect \/ DoExplainPick \/ DoExplainAsk
SpecExplain == InitX /\ [][NextExplain]_vars

InitF == /\ InitOrch /\ IdleDetect /\ IdleDecode /\ IdleCodec /\ IdleExplain
         /\ InitFault /\ IdleStats /\ IdleGenerate /\ IdleScheduler
DoInjectFault == InjectFault
                 /\ UNCHANGED <<orchVars, detVars, decVars, codVars, insVars, stVars, genVars, schVars>>
NextFault == DoInjectFault
SpecFault == InitF /\ [][NextFault]_vars

InitS == /\ InitOrch /\ IdleDetect /\ IdleDecode /\ IdleCodec /\ IdleExplain
         /\ IdleFault /\ InitStats /\ IdleGenerate /\ IdleScheduler
DoComputeStats == ComputeStats
                  /\ UNCHANGED <<orchVars, detVars, decVars, codVars, insVars, fltVars, genVars, schVars>>
NextStats == DoComputeStats
SpecStats == InitS /\ [][NextStats]_vars

restGenerate == <<orchVars, detVars, codVars, insVars, fltVars, stVars, schVars>>
InitG == /\ InitOrch /\ IdleDetect /\ IdleDecode /\ IdleCodec /\ IdleExplain
         /\ IdleFault /\ IdleStats /\ InitGenerate /\ IdleScheduler
DoGenOpen == GenOpen /\ UNCHANGED restGenerate
DoGenTurn == GenTurn /\ UNCHANGED restGenerate
DoGenReturn == GenReturn /\ UNCHANGED restGenerate
DoGenDecode == GenDecode /\ UNCHANGED restGenerate
NextGenerate == \/ DoGenOpen \/ DoGenTurn \/ DoGenReturn \/ DoGenDecode
                \/ DoDecodeRead \/ DoDecodeReturn
SpecGenerate == InitG /\ [][NextGenerate]_vars

InitK == /\ InitOrch /\ IdleDetect /\ IdleDecode /\ IdleCodec /\ IdleExplain
         /\ IdleFault /\ IdleStats /\ IdleGenerate /\ InitScheduler
DoStartSchedulerCall ==
    /\ \E t \in CronTimes : start_scheduler(t[1], t[2])
    /\ UNCHANGED <<orchVars, detVars, decVars, codVars, insVars, fltVars, stVars, genVars>>
NextScheduler == DoStartSchedulerCall
SpecScheduler == InitK /\ [][NextScheduler]_vars


(***************************************************************************)
(* Properties.                                                             *)
(***************************************************************************)
IsPrefix(a, b) == Len(a) <= Len(b) /\ SubSeq(b, 1, Len(a)) = a
\* core stages an invocation has completed when it is about to execute statement l
StagesBefore(l) ==
    CASE l = "generate" -> 0
      [] l = "decode" -> 1
      [] l = "train" -> 2
      [] l = "detect" -> 3
      [] l = "summarize" -> 4
      [] l = "done" -> 6
      [] OTHER -> 5

\* C1: a raise in a core stage (GENERATE, DECODE, TRAIN, DETECT, SUMMARIZE) ends the
\* invocation as failed at that statement, the failed invocation is never resumed (a
\* caller leaves "failed" only by a new invocation), and no step an invocation takes from
\* a core statement, the raise included, changes the last-run record.
C1_CoreFailureKeepsLastRun ==
    [][\A c \in Callers :
          /\ (pc[c] \in CoreStatements /\ pc'[c] # pc[c]) => lastFile' = lastFile
          /\ (pc[c] \in CoreStatements /\ pc'[c] = "failed") => failedAt'[c] = pc[c]
          /\ (pc[c] = "failed" /\ pc'[c] # "failed")
                => (pc'[c] = "generate" /\ run'[c] # run[c])]_vars
C1_Witness == \E c \in Callers : /\ pc[c] = "failed"
                                 /\ failedAt[c] = "train"
                                 /\ lastFile.kind = "record"

\* C2: the tabular export, the model artifact, the run-log line and the last-run record
\* are written only once SUMMARIZE has completed, and an invocation that raised in
\* GENERATE, DECODE or TRAIN has written none of them.
C2_OutputsOnlyInPersist ==
    \A c \in Callers :
        /\ wrote[c] # {} => Len(hist[c]) >= 5
        /\ failedAt[c] \in {"generate", "decode", "train"} => wrote[c] = {}

\* C3: at no time are two invocations of run_nightly_job in progress.
C3_AtMostOneRun == Cardinality({c \in Callers : Active(c)}) <= 1

\* C4: an invocation calls a collaborator (briefing, actions, PDF report, speak) only
\* after its PERSIST stage has completed.
C4_CollaboratorsAfterPersist ==
    \A c \in Callers : collab[c] # {} => Len(hist[c]) = Len(CoreOrder)

C6_Monotone ==
    dpc \in {"flag", "done"} =>
        \A i, j \in 1..Len(raw) : raw[i] < raw[j] => RatGE(scores[i], scores[j])

\* C7: in a batch with more than one distinct raw score the largest anomaly_score is
\* exactly 1 and the smallest exactly 0.
C7_MaxOneMinZero ==
    (dpc \in {"flag", "done"} /\ Cardinality(Range(raw)) > 1) =>
        /\ \E i \in 1..Len(raw) : RatEq(scores[i], One)
        /\ \E i \in 1..Len(raw) : RatEq(scores[i], Zero)
        /\ \A i \in 1..Len(raw) : RatGE(One, scores[i]) /\ RatGE(scores[i], Zero)

\* C8: every anomaly_score lies in [0, 1] and is_anomaly is true exactly when the
\* anomaly_score is greater than the threshold.
C8_ScoreInUnitInterval ==
    dpc = "done" =>
        \A i \in 1..Len(raw) :
            /\ RatGE(scores[i], Zero)
            /\ RatGE(One, scores[i])
            /\ flags[i] = RatGT(scores[i], threshold)

\* C9: decoding a stream of L bytes raises nothing and yields floor(L / 29) packets, the
\* i-th decoded from the i-th 29-byte stride; the trailing L mod 29 bytes are dropped.
Stride(f, i) == SubSeq(f, (i - 1) * PacketSize + 1, i * PacketSize)
C9_Stride ==
    /\ rpc # "error"
    /\ Len(records) * PacketSize <= Len(stream)
    /\ \A i \in 1..Len(records) : records[i] = bytes_to_packet(Stride(stream, i))
    /\ rpc \in {"frame", "done"} => Len(records) = Len(stream) \div PacketSize
C9_Witness == /\ rpc = "done"
              /\ Len(records) = 2
              /\ Len(stream) % PacketSize = 28

\* C10: a valid packet encodes to exactly 29 bytes, and decoding them gives the same keys
\* in the same order, the same timestamp and mode, and each float field as the float32
\* nearest to the original (within half a float32 unit in the last place).
Close(x, d) ==
    /\ d.sign = x.sign
    /\ d.tail = 0
    /\ \/ d.exp = x.exp /\ d.man = x.man /\ x.tail <= Half
       \/ d.exp = x.exp /\ d.man = x.man + 1 /\ x.tail >= Half
       \/ d.exp = x.exp + 1 /\ d.man = 0 /\ x.man = ManTop - 1 /\ x.tail >= Half
C10_RoundTrip ==
    /\ cpc \in {"decode", "done"} =>
          /\ Len(wire) = 29
          /\ \A i \in 1..Len(wire) : wire[i] \in 0..255
    /\ cpc = "done" =>
          /\ Len(decoded) = Len(packet)
          /\ \A i \in 1..Len(packet) : decoded[i][1] = packet[i][1]
          /\ Field(decoded, "timestamp") = Field(packet, "timestamp")
          /\ Field(decoded, "mode") = Field(packet, "mode")
          /\ \A i \in 1..Len(FloatKeys) :
                Close(Field(packet, FloatKeys[i]), Field(decoded, FloatKeys[i]))
C10_Witness == /\ cpc = "done"
               /\ Field(packet, "timestamp") = T(65535, 65535)
               /\ Field(packet, "mode") = 255
               /\ Field(decoded, "battery_v") # Field(packet, "battery_v")
               /\ Field(decoded, "temp_c").exp = Field(packet, "temp_c").exp + 1

C12_CsvHasDerivedColumns ==
    \A c \in Callers :
        (pc[c] = "done" /\ csvFile.kind = "csv" /\ csvFile.by = run[c]) =>
            /\ csvFile.columns = DetectedColumns
            /\ (lastFile.kind = "record" /\ lastFile.by = run[c])
                  => csvFile.rows = lastFile.rows

\* C13: when an invocation called with n_packets = n >= 1 returns, the last-run record it
\* wrote has exactly the keys timestamp, total_packets, anomaly_count, csv_file, bin_file,
\* report_pdf; its total_packets is n and is the returned summary's total_packets; its
\* anomaly_count is the number of rows DETECT flagged, between 0 and total_packets.
C13_LastRunRecord ==
    [][\A c \in Callers :
          (pc[c] = "dump_last" /\ pc'[c] = "done" /\ args[c].n_packets >= 1) =>
              /\ lastFile'.kind = "record"
              /\ lastFile'.keys = LastRunKeys
              /\ lastFile'.rows = args[c].n_packets
              /\ lastFile'.rows = summary[c].total_packets
              /\ lastFile'.anomalies = CountTrue(detected[c].is_anomaly)
              /\ lastFile'.anomalies \in 0..lastFile'.rows]_vars

\* C14: at every moment the last-run slot holds no file yet or one complete record (of
\* the previous successful run or of the new one), never an empty or partial file.
C14_AtomicOverwrite == lastFile.kind \in {"absent", "record"}

\* C15: the output of DETECT has a flag for every decoded row and was scored with the model
\* file the same invocation's TRAIN wrote.
C15_DetectUsesOwnModel ==
    \A c \in Callers :
        pc[c] = "summarize" =>
            /\ Len(detected[c].is_anomaly) = df[c].rows
            /\ detected[c].model = run[c]

C17_PowerDrop ==
    (fpc = "returned" /\ fscenario = "power_drop") =>
        /\ Field(fout, "battery_v") < Field(fin, "battery_v")
        /\ Field(fout, "panel_i") > Field(fin, "panel_i")
        /\ Field(fout, "mode") = 2
        /\ Len(fout) = Len(fin)
        /\ \A i \in 1..Len(fin) :
              /\ fout[i][1] = fin[i][1]
              /\ fin[i][1] \in {"timestamp", "temp_c", "gyro_x", "gyro_y", "gyro_z"}
                    => fout[i][2] = fin[i][2]
        /\ fpacket = fin
C17_Witness == /\ fpc = "returned" /\ fscenario = "power_drop"
               /\ Field(fin, "mode") = 1 /\ Field(fin, "battery_v") = 59
               /\ Field(fout, "battery_v") = 39

\* C18: compute_summary_stats partitions the rows: total_packets counts all rows,
\* anomaly_count the rows with is_anomaly true (0 without the column), the baseline is the
\* other rows (all rows without the column), baseline + anomaly_count = total_packets, and
\* each feature's mean, std, min and max are those of the baseline rows only.
RECURSIVE SumOver(_, _)
SumOver(S, g) == IF S = {} THEN 0
                 ELSE LET i == CHOOSE j \in S : TRUE
                      IN g[i] + SumOver(S \ {i}, g)
Baseline == {i \in 1..Len(sdf.rows) :
                ~("is_anomaly" \in DOMAIN sdf.rows[i]) \/ ~sdf.rows[i]["is_anomaly"]}
Flagged == {i \in 1..Len(sdf.rows) :
                "is_anomaly" \in DOMAIN sdf.rows[i] /\ sdf.rows[i]["is_anomaly"]}
C18_StatsPartition ==
    spc = "returned" =>
        LET n == Cardinality(Baseline)
        IN /\ stats.total_packets = Len(sdf.rows)
           /\ stats.anomaly_count = Cardinality(Flagged)
           /\ n + stats.anomaly_count = stats.total_packets
           /\ \A k \in 1..Len(FEATURE_COLUMNS) :
                 LET col == FEATURE_COLUMNS[k]
                     st == stats.features[col]
                     x == [i \in 1..Len(sdf.rows) |-> sdf.rows[i][col]]
                     S == SumOver(Baseline, x)
                     dev == [i \in 1..Len(sdf.rows) |-> (n * x[i] - S) * (n * x[i] - S)]
                 IN /\ st.mean = [num |-> S, den |-> n]
                    /\ st.std.sq_den = n * (n - 1)
                    /\ n * st.std.sq_num = SumOver(Baseline, dev)
                    /\ IF n = 0 THEN st.min = "nan" /\ st.max = "nan"
                       ELSE /\ \E i \in Baseline : st.min = x[i]
                            /\ \E i \in Baseline : st.max = x[i]
                            /\ \A i \in Baseline : st.min <= x[i] /\ x[i] <= st.max
C18_Witness == /\ spc = "returned"
               /\ stats.total_packets = 3
               /\ stats.anomaly_count = 1
               /\ stats.features["battery_v"].mean = [num |-> 80, den |-> 2]
               /\ sdf.rows[1]["battery_v"] = 59 /\ sdf.rows[1]["is_anomaly"]

\* C19: generate_packets(n) leaves a file of exactly n records of 29 bytes whose
\* timestamps are now, now + 1, ..., now + n - 1 in file order, faulted packets included;
\* decoding the file gives n rows with those timestamps, strictly increasing.
SecondsAfter(t, u) == (t.hi - u.hi) * 65536 + (t.lo - u.lo)
C19_GeneratedFile ==
    /\ gpc \in {"written", "decoding"} =>
          /\ Len(gfile) = PacketSize * gn
          /\ \A k \in 1..gn :
                SecondsAfter(UnpackU32(SubSeq(Stride(gfile, k), 1, 4)), gnow) = k - 1
    /\ (gpc = "decoding" /\ rpc = "done") =>
          /\ Len(records) = gn
          /\ \A k \in 1..gn :
                SecondsAfter(Field(records[k], "timestamp"), gnow) = k - 1
          /\ \A k \in 1..(gn - 1) :
                SecondsAfter(Field(records[k + 1], "timestamp"),
                             Field(records[k], "timestamp")) > 0
C19_Witness == /\ gpc = "decoding" /\ rpc = "done"
               /\ gn = 2 /\ gnow.lo = 65535
               /\ Field(records[1], "mode") = 3
               /\ Field(records[2], "timestamp") = T(25940, 0)

\* C20: whenever no invocation is in progress, the run log and the last-run slot agree:
\* both are empty, or the log's last line and the last-run record are of the same run
\* with the same packet and anomaly counts.
C20_LogMatchesLastRun ==
    (\A c \in Callers : ~Active(c)) =>
        \/ logFile = <<>> /\ lastFile.kind = "absent"
        \/ /\ logFile # <<>>
           /\ lastFile.kind = "record"
           /\ logFile[Len(logFile)].by = lastFile.by
           /\ logFile[Len(logFile)].rows = lastFile.rows
           /\ logFile[Len(logFile)].anomalies = lastFile.anomalies

\* the schedulers constructed so far that are running
RunningSchedulers == {i \in 1..Len(schedulers) : schedulers[i].running}
====
